---- MODULE Spec2Model ----
(***************************************************************************)
(* Model of 13F_PDF_Convertor.py: the line classifier                      *)
(* (categorize_col_contents and its helpers), the column splitter          *)
(* (starter_check, end_check, split_table), the total-count scan           *)
(* (find_count) and the main loop that drives them.                        *)
(*                                                                         *)
(* A Python str is the sequence of its code points (natural numbers), so   *)
(* that every character of a str, ASCII or not, is one element; S(lit)     *)
(* is the str of an ASCII literal.  s[a:b] is PySlice, s.strip() is Strip, *)
(* t in s is Contains, s.rfind(t) is rfind, s[::-1] is Reverse.  Indices   *)
(* are Python's (0-based) everywhere except inside SubSeq.  A Python list  *)
(* is a TLA+ sequence.  A call that can raise returns a record whose field *)
(* exc names the exception ("" when it returns).  TLA+ strings are used    *)
(* only for such names and for the places of the program (pc, called).     *)
(***************************************************************************)
EXTENDS Integers, Sequences, FiniteSets, TLC

(***************************************************************************)
(* Bounds of the checked inputs.                                           *)
(***************************************************************************)
\* longest split_list (lines of one document) in Spec
MaxLines == 3
\* most words after the CUSIP prefix of the single line of SpecLine
MaxLineWords == 3
\* most words of a combined description in SpecFn
MaxWords == 3

(***************************************************************************)
(* Python string primitives.                                               *)
(***************************************************************************)
Min(A) == CHOOSE x \in A : \A y \in A : x <= y

Max(A) == CHOOSE x \in A : \A y \in A : x >= y

\* the printable ASCII characters in code point order: U+0020 to U+005F,
\* and U+0061 to U+007E
Ascii ==
    <<" !\"#$%&'()*+,-./0123456789:;<=>?@ABCDEFGHIJKLMNOPQRSTUVWXYZ[\\]^_",
      "abcdefghijklmnopqrstuvwxyz{|}~">>

\* ord(c) of a printable ASCII character written as a one-character string
AsciiOrd ==
    [c \in {SubSeq(Ascii[1], k, k) : k \in 1..Len(Ascii[1])}
           \cup {SubSeq(Ascii[2], k, k) : k \in 1..Len(Ascii[2])} |->
        IF \E k \in 1..Len(Ascii[1]) : SubSeq(Ascii[1], k, k) = c
        THEN 31 + (CHOOSE k \in 1..Len(Ascii[1]) : SubSeq(Ascii[1], k, k) = c)
        ELSE 96 + (CHOOSE k \in 1..Len(Ascii[2]) : SubSeq(Ascii[2], k, k) = c)]

Ord(c) == AsciiOrd[c]

\* the str written as the ASCII literal lit
RECURSIVE S(_)
S(lit) ==
    IF lit = "" THEN <<>>
    ELSE <<Ord(SubSeq(lit, 1, 1))>> \o S(SubSeq(lit, 2, Len(lit)))

\* the characters str.strip() removes and \s of a str pattern matches
\* (str.isspace), less those at which str.splitlines() breaks a line and
\* which no el therefore holds (U+000A..U+000D, U+001C..U+001E, U+0085,
\* U+2028, U+2029): U+0009, U+001F, U+0020, U+00A0, U+1680,
\* U+2000..U+200A, U+202F, U+205F, U+3000
WhiteSpace ==
    {9, 31, 32, 160, 5760} \cup (8192..8202) \cup {8239, 8287, 12288}

\* the characters of WhiteSpace int() ignores around a number: int() takes
\* the characters below U+007F as they are and skips only the ASCII
\* blanks among them, so U+001F is not ignored
IntWhiteSpace == WhiteSpace \ {31}

\* the code points of the digit zero of every Unicode decimal digit block
\* (category Nd); each block holds its digits 0 to 9 in order
DecimalZeros ==
    {48, 1632, 1776, 1984, 2406, 2534, 2662, 2790, 2918, 3046, 3174, 3302,
     3430, 3558, 3664, 3792, 3872, 4160, 4240, 6112, 6160, 6470, 6608, 6784,
     6800, 6992, 7088, 7232, 7248, 42528, 43216, 43264, 43472, 43504, 43600,
     44016, 65296, 66720, 68912, 69734, 69872, 69942, 70096, 70384, 70736,
     70864, 71248, 71360, 71472, 71904, 72016, 72784, 73040, 73120, 92768,
     92864, 93008, 120782, 120792, 120802, 120812, 120822, 123200, 123632,
     125264, 130032}

\* the characters \d of a str pattern matches and int() reads as digits
Digits == UNION {z..(z + 9) : z \in DecimalZeros}

\* s[k] for 0 <= k < len(s)
CharAt(s, k) == s[k + 1]

\* the bound x of a slice s[x:...] or s[...:x], clamped as Python clamps it
SliceBound(s, x) ==
    IF x < 0 THEN (IF x + Len(s) < 0 THEN 0 ELSE x + Len(s))
    ELSE (IF x > Len(s) THEN Len(s) ELSE x)

\* s[a:b]
PySlice(s, a, b) == SubSeq(s, SliceBound(s, a) + 1, SliceBound(s, b))

\* s[a:]
PyFrom(s, a) == PySlice(s, a, Len(s))

\* s[:b]
PyTo(s, b) == PySlice(s, 0, b)

\* s without the characters of W at its start
RECURSIVE LStripOf(_, _)
LStripOf(s, W) ==
    IF s # <<>> /\ CharAt(s, 0) \in W
    THEN LStripOf(PyFrom(s, 1), W)
    ELSE s

\* s without the characters of W at its end
RECURSIVE RStripOf(_, _)
RStripOf(s, W) ==
    IF s # <<>> /\ CharAt(s, Len(s) - 1) \in W
    THEN RStripOf(PyTo(s, Len(s) - 1), W)
    ELSE s

LStrip(s) == LStripOf(s, WhiteSpace)

RStrip(s) == RStripOf(s, WhiteSpace)

\* s.strip()
Strip(s) == RStrip(LStrip(s))

\* the indices at which t occurs in s
Occurrences(s, t) ==
    {k \in 0..(Len(s) - Len(t)) : SubSeq(s, k + 1, k + Len(t)) = t}

\* t in s
Contains(s, t) == Occurrences(s, t) # {}

\* s.rfind(t)
rfind(s, t) == IF Contains(s, t) THEN Max(Occurrences(s, t)) ELSE -1

\* s[::-1]
RECURSIVE Reverse(_)
Reverse(s) ==
    IF s = <<>> THEN <<>> ELSE Reverse(PyFrom(s, 1)) \o <<CharAt(s, 0)>>

\* s.replace(',', '')
RECURSIVE RemoveCommas(_)
RemoveCommas(s) ==
    IF s = <<>> THEN <<>>
    ELSE (IF CharAt(s, 0) = Ord(",") THEN <<>> ELSE <<CharAt(s, 0)>>)
         \o RemoveCommas(PyFrom(s, 1))

\* re.search(word + '$', el) is not None, on a line without line breaks
EndsWith(el, word) ==
    Len(el) >= Len(word) /\ PyFrom(el, Len(el) - Len(word)) = word

\* the value of a decimal digit: its offset in its block
DigitValue(c) == c - Max({z \in DecimalZeros : z <= c})

\* the digits and underscores int() accepts after the sign: digits, with
\* single underscores only between two digits
IsIntBody(t) ==
    /\ t # <<>>
    /\ \A k \in 0..(Len(t) - 1) :
          \/ CharAt(t, k) \in Digits
          \/ /\ CharAt(t, k) = Ord("_")
             /\ k > 0 /\ k < Len(t) - 1
             /\ CharAt(t, k - 1) \in Digits
             /\ CharAt(t, k + 1) \in Digits

RECURSIVE IntBodyValue(_, _)
IntBodyValue(t, acc) ==
    IF t = <<>> THEN acc
    ELSE IF CharAt(t, 0) = Ord("_") THEN IntBodyValue(PyFrom(t, 1), acc)
    ELSE IntBodyValue(PyFrom(t, 1), 10 * acc + DigitValue(CharAt(t, 0)))

\* int(s): surrounding whitespace is ignored, one sign is allowed; anything
\* else raises ValueError
PyInt(s) ==
    LET t == RStripOf(LStripOf(s, IntWhiteSpace), IntWhiteSpace)
        signed == t # <<>> /\ CharAt(t, 0) \in {Ord("+"), Ord("-")}
        body == IF signed THEN PyFrom(t, 1) ELSE t
    IN  IF IsIntBody(body)
        THEN [exc |-> "",
              ret |-> IF signed /\ CharAt(t, 0) = Ord("-")
                      THEN 0 - IntBodyValue(body, 0)
                      ELSE IntBodyValue(body, 0)]
        ELSE [exc |-> "ValueError", ret |-> 0]

(***************************************************************************)
(* Line classifier.                                                        *)
(***************************************************************************)
\* Python's None, where the code returns it in place of a str
None == "None"

\* re.match(r'.\d{1}....\s.{2}\s.', el): the match is anchored at index 0
\* and, when there is one, its span() is (0, 11)
re_match_CUSIP(el) ==
    IF /\ Len(el) >= 11
       /\ CharAt(el, 1) \in Digits
       /\ CharAt(el, 6) \in WhiteSpace
       /\ CharAt(el, 9) \in WhiteSpace
    THEN [matched |-> TRUE, span |-> <<0, 11>>]
    ELSE [matched |-> FALSE, span |-> <<0, 0>>]

add_CUSIP(match_CUSIP, el) ==
    PySlice(el, match_CUSIP.span[1], match_CUSIP.span[2])

\* el[index_CUSIP[1]+1] raises IndexError past the end of el
add_star(match_CUSIP, el) ==
    LET k == match_CUSIP.span[2] + 1
    IN  IF k >= Len(el) THEN [exc |-> "IndexError", ret |-> <<>>]
        ELSE IF CharAt(el, k) = Ord("*") THEN [exc |-> "", ret |-> S("*")]
        ELSE [exc |-> "", ret |-> <<>>]

\* description_start_index_check_star with the "*" test left out: the
\* description always starts one character after the CUSIP
description_start_index_ignoring_star(index_CUSIP, el) ==
    LET k == index_CUSIP[2] + 1
    IN  IF k >= Len(el) THEN [exc |-> "IndexError", ret |-> 0]
        ELSE [exc |-> "", ret |-> index_CUSIP[2] + 1]

description_start_index_check_star(index_CUSIP, el) ==
    LET k == index_CUSIP[2] + 1
    IN  IF k >= Len(el) THEN [exc |-> "IndexError", ret |-> 0]
        ELSE IF CharAt(el, k) = Ord("*")
        THEN [exc |-> "", ret |-> index_CUSIP[2] + 3]
        ELSE [exc |-> "", ret |-> index_CUSIP[2] + 1]

\* add_description with the calls of strip() left out
add_description_unstripped(match_CUSIP, el) ==
    LET index_CUSIP == match_CUSIP.span
        start == description_start_index_check_star(index_CUSIP, el)
    IN  IF start.exc # "" THEN [exc |-> start.exc, ret |-> <<>>]
        ELSE IF ~EndsWith(el, S("ADDED")) /\ ~EndsWith(el, S("DELETED"))
        THEN [exc |-> "", ret |-> PyFrom(el, start.ret)]
        ELSE IF EndsWith(el, S("ADDED"))
        THEN [exc |-> "",
              ret |-> PySlice(el, start.ret, Len(el) - Len(S("ADDED")))]
        ELSE [exc |-> "",
              ret |-> PySlice(el, start.ret, Len(el) - Len(S("DELETED")))]

add_description(match_CUSIP, el) ==
    LET index_CUSIP == match_CUSIP.span
        start == description_start_index_check_star(index_CUSIP, el)
    IN  IF start.exc # "" THEN [exc |-> start.exc, ret |-> <<>>]
        ELSE IF ~EndsWith(el, S("ADDED")) /\ ~EndsWith(el, S("DELETED"))
        THEN [exc |-> "", ret |-> Strip(PyFrom(el, start.ret))]
        ELSE IF EndsWith(el, S("ADDED"))
        THEN [exc |-> "",
              ret |-> Strip(PySlice(el, start.ret, Len(el) - Len(S("ADDED"))))]
        ELSE [exc |-> "",
              ret |-> Strip(PySlice(el, start.ret,
                                    Len(el) - Len(S("DELETED"))))]

add_status(match_CUSIP, el) ==
    IF ~EndsWith(el, S("ADDED")) /\ ~EndsWith(el, S("DELETED")) THEN <<>>
    ELSE IF EndsWith(el, S("ADDED"))
    THEN Strip(PySlice(el, Len(el) - Len(S("ADDED")), Len(el)))
    ELSE Strip(PySlice(el, Len(el) - Len(S("DELETED")), Len(el)))

\* kind is "None" when the line is no record, "row" when row_list is
\* returned, and exc is set when one of the helpers raises
categorize_col_contents(el) ==
    LET match_CUSIP == re_match_CUSIP(el)
        star == add_star(match_CUSIP, el)
        description == add_description(match_CUSIP, el)
    IN  IF ~match_CUSIP.matched
        THEN [exc |-> "", kind |-> "None", row_list |-> <<>>]
        ELSE IF star.exc # ""
        THEN [exc |-> star.exc, kind |-> "raise", row_list |-> <<>>]
        ELSE IF description.exc # ""
        THEN [exc |-> description.exc, kind |-> "raise", row_list |-> <<>>]
        ELSE [exc |-> "", kind |-> "row",
              row_list |-> <<add_CUSIP(match_CUSIP, el), star.ret,
                             description.ret, add_status(match_CUSIP, el)>>]

(***************************************************************************)
(* Column splitter.                                                        *)
(***************************************************************************)
starters ==
    <<S("CALL"), S("PUT"), S("DEBT"), S("NAMEN"), S("*W"), S("ORDINARY"),
      S("RIGHT"), S("WBI"), S("NOTE"), S("USD ORD"), S("ORD SHS"),
      S("ORD SH"), S("USD MFC"), S("REG SHS"), S("SPONS ADR"), S("SPONS ADS"),
      S("SPON ADR"), S("SPON ADS"), S("SPONS ADS"), S("SPONSORD ADS"),
      S("SPONSORED"), S("SPONDS"), S("PHYSCL"), S("PRTNRSP"), S("PARTNERSHP"),
      S("SHS CL"), S("COM CL"), S("COM CLASS"), S(" ORD"), S("COM STK"),
      S("COM UNIT"), S("CL A"), S("USD ORD"), S("ORD SH"), S("SHS CLASS"),
      S("UNIT COM"), S("ADR"), S("ADS"), S("COM"), S("UNIT"), S("ORD"),
      S("SHS"), S("CLASS"), S("S&P")>>

ends ==
    <<S("CORP N"), S("CORP NEW"), S("INC N"), S("INC NEW"), S("PLC"),
      S("LTD"), S("INC"), S("CORP"), S("HLDGS I"), S("HLDGS II"),
      S("HLDGS III"), S("HLDGS"), S("FD TR"), S("ETF TR"), S("BRH"), S("L P"),
      S(" LP"), S("S A"), S("TR I"), S("TR II"), S("TR III"), S("FD I"),
      S("FD II"), S("FD III"), S("ETF TR"), S("FD T"), S("TRADED FD"),
      S("FD I"), S("FD II"), S("FD III"), S("TR"), S("FDS"), S("FD"),
      S("TRUST")>>

\* starter_check whose loop keeps the last starter found instead of
\* returning at the first
starter_check_last_wins(des) ==
    LET hits == {k \in 1..Len(starters) : Contains(des, S(" ") \o starters[k])}
    IN  IF hits = {} THEN <<FALSE, None>>
        ELSE <<TRUE, starters[Max(hits)]>>

\* starter_check that tests "starter in des", without the space in front
starter_check_any_substring(des) ==
    LET hits == {k \in 1..Len(starters) : Contains(des, starters[k])}
    IN  IF hits = {} THEN <<FALSE, None>>
        ELSE <<TRUE, starters[Min(hits)]>>

\* the first starter, in list order, that des holds after a space
starter_check(des) ==
    LET hits == {k \in 1..Len(starters) : Contains(des, S(" ") \o starters[k])}
    IN  IF hits = {} THEN <<FALSE, None>>
        ELSE <<TRUE, starters[Min(hits)]>>

\* end_check that tests "reverse_end in reverse_des", without the two spaces
end_check_any_substring(des) ==
    LET reverse_des == Reverse(des)
        hits == {k \in 1..Len(ends) :
                    Contains(reverse_des, Reverse(ends[k]))}
    IN  IF hits = {} THEN <<FALSE, None>>
        ELSE <<TRUE, Strip(ends[Min(hits)])>>

\* the first end word, in list order, whose reversal the reversed des holds
\* between two spaces
end_check(des) ==
    LET reverse_des == Reverse(des)
        hits == {k \in 1..Len(ends) :
                    Contains(reverse_des, S(" ") \o Reverse(ends[k]) \o S(" "))}
    IN  IF hits = {} THEN <<FALSE, None>>
        ELSE <<TRUE, Strip(ends[Min(hits)])>>

note == S("See description column for issue type")

\* row.insert(3, x) on a 4-field row
Insert3(row, x) == <<row[1], row[2], row[3], x, row[4]>>

\* the body of split_table's loop for one row
split_row(row) ==
    LET des == row[3]
    IN  IF starter_check(des)[1]
        THEN LET starter_start_index == rfind(des, starter_check(des)[2])
                 issue == Strip(PyFrom(des, starter_start_index))
                 description == Strip(PyTo(des, starter_start_index - 1))
             IN  [Insert3(row, issue) EXCEPT ![3] = description]
        ELSE IF end_check(des)[1]
        THEN LET end == end_check(des)[2]
                 end_start_index == rfind(des, end \o S(" "))
                 issue == Strip(PyFrom(des, end_start_index + Len(end)))
                 description == Strip(PyTo(des, end_start_index + Len(end)))
             IN  [Insert3(row, issue) EXCEPT ![3] = description]
        ELSE Insert3(row, note)

split_table(table) == [k \in 1..Len(table) |-> split_row(table[k])]

(***************************************************************************)
(* Total-count scan.                                                       *)
(***************************************************************************)
find_count(el) ==
    IF Contains(el, S("Total Count"))
    THEN LET n == PyInt(RemoveCommas(PyFrom(el, Len(el) - 6)))
         IN  [exc |-> n.exc, ret |-> <<TRUE, n.ret>>]
    ELSE [exc |-> "", ret |-> <<FALSE, 0>>]

(***************************************************************************)
(* State.                                                                  *)
(*   split_list   the non-blank lines parsePDF returned                    *)
(*   pos          the 1-based position of the main loop's el in split_list *)
(*   count        the total count found so far                             *)
(*   all_table    the rows appended so far; split_table changes its rows   *)
(*                in place and returns the same list                       *)
(*   final_table  what split_table returned, <<>> before                   *)
(*   pc           "loop" in the main loop, "done" after split_table, the   *)
(*                exception's name once one is raised (nothing catches     *)
(*                it), "fn" while single functions are applied to des      *)
(*   des          the argument of the functions applied on their own       *)
(*   called       the function applied to des, "" before                   *)
(*   result       what it returned                                         *)
(***************************************************************************)
VARIABLES split_list, pos, count, all_table, final_table, pc,
          des, called, result

vars == <<split_list, pos, count, all_table, final_table, pc,
          des, called, result>>

mainVars == <<split_list, pos, count, all_table, final_table>>

fnVars == <<des, called, result>>

(***************************************************************************)
(* Inputs.                                                                 *)
(***************************************************************************)
\* the lines of the documents of Spec: a record with option flag and
\* status, the same record with its CUSIP printed without blanks, records
\* without flag or status, a heading, total-count lines that do and do not
\* end in a number, a record line that stops after its CUSIP, and two
\* lines with characters outside ASCII: a record whose CUSIP holds the
\* digit U+0664 and the blanks U+00A0 and U+2003 and whose description
\* holds U+001F, and a total-count line that ends in the digits U+0661,
\* U+0662 and the blank U+00A0
Lines ==
    {S("A12345 67 8 * APPLE INC COM DELETED"),
     S("A12345678 * APPLE INC COM DELETED"),
     S("B23456 78 9 APPLE TR PETROL"),
     S("C34567 89 0 TELECOM ADDED"),
     S("CUSIP NO ISSUER NAME"),
     S("Total Count 21,312"),
     S("Total Count"),
     S("A12345 67 8"),
     <<68, 1636>> \o S("5678") \o <<160>> \o S("90") \o <<8195>> \o S("1 ")
        \o <<31>> \o S("APPLE INC") \o <<31>> \o S(" COM") \o <<160>>,
     S("Total Count 2,3") \o <<1633, 1634, 160>>}

SeqsUpTo(A, n) == UNION {[1..m -> A] : m \in 0..n}

\* " " + f[1] + " " + f[2] + ...
RECURSIVE SpaceJoin(_)
SpaceJoin(f) ==
    IF f = <<>> THEN <<>>
    ELSE S(" ") \o f[1] \o SpaceJoin(SubSeq(f, 2, Len(f)))

\* the words of the lines of SpecLine; the empty word doubles a blank or
\* leaves one at the end of the line, and the word U+001F is a blank that
\* strip() removes and the token tests do not take for a space
LineWords == {<<>>, S("APPLE"), S("INC"), S("COM"), S("TR"), <<31>>}

Prefixes == {S("A12345 67 8"), S("A12345678")}

LineInputs ==
    {prefix \o SpaceJoin((IF star THEN <<S("*")>> ELSE <<>>) \o ws
                         \o (IF status = <<>> THEN <<>> ELSE <<status>>)) :
        <<prefix, star, status, ws>> \in
            Prefixes \X BOOLEAN \X {<<>>, S("ADDED"), S("DELETED")}
                \X SeqsUpTo(LineWords, MaxLineWords)}

\* the words of the combined descriptions of SpecFn; the word U+2003 is a
\* blank that strip() removes and the token tests do not take for a space
Words ==
    {<<>>, S("APPLE"), S("INC"), S("COM"), S("TELECOM"), S("SPONS"),
     S("ADR"), S("CALL"), S("TR"), S("PETROL"), S("LP"), <<8195>>}

\* add_description strips what it returns
DesInputs == {Strip(SpaceJoin(ws)) : ws \in SeqsUpTo(Words, MaxWords)}

(***************************************************************************)
(* The main program.                                                       *)
(***************************************************************************)
InitMain(inputs) ==
    /\ split_list \in inputs
    /\ pos = 1
    /\ count = 0
    /\ all_table = <<>>
    /\ final_table = <<>>
    /\ pc = "loop"
    /\ des = <<>>
    /\ called = ""
    /\ result = <<>>

Init == InitMain(SeqsUpTo(Lines, MaxLines))

InitLine == InitMain({<<el>> : el \in LineInputs})

\* the main loop's pass with a row appended only when all_table does not
\* hold an equal row yet
MainLoop_without_repeats ==
    /\ pc = "loop"
    /\ pos <= Len(split_list)
    /\ LET el == split_list[pos]
           found == find_count(el)
           row_list == categorize_col_contents(el)
       IN  IF found.exc # ""
           THEN /\ pc' = found.exc
                /\ UNCHANGED <<pos, count, all_table>>
           ELSE /\ count' = IF found.ret[1] THEN found.ret[2] ELSE count
                /\ IF row_list.exc # ""
                   THEN /\ pc' = row_list.exc
                        /\ UNCHANGED <<pos, all_table>>
                   ELSE /\ all_table' =
                              IF /\ row_list.kind = "row"
                                 /\ \A k \in 1..Len(all_table) :
                                        all_table[k] # row_list.row_list
                              THEN Append(all_table, row_list.row_list)
                              ELSE all_table
                        /\ pos' = pos + 1
                        /\ pc' = "loop"
    /\ UNCHANGED <<split_list, final_table, des, called, result>>

\* one pass of "for el in split_list"
MainLoop ==
    /\ pc = "loop"
    /\ pos <= Len(split_list)
    /\ LET el == split_list[pos]
           found == find_count(el)
           row_list == categorize_col_contents(el)
       IN  IF found.exc # ""
           THEN /\ pc' = found.exc
                /\ UNCHANGED <<pos, count, all_table>>
           ELSE /\ count' = IF found.ret[1] THEN found.ret[2] ELSE count
                /\ IF row_list.exc # ""
                   THEN /\ pc' = row_list.exc
                        /\ UNCHANGED <<pos, all_table>>
                   ELSE /\ all_table' =
                              IF row_list.kind = "row"
                              THEN Append(all_table, row_list.row_list)
                              ELSE all_table
                        /\ pos' = pos + 1
                        /\ pc' = "loop"
    /\ UNCHANGED <<split_list, final_table, des, called, result>>

\* final_table = split_table(all_table), after the loop
SplitTable ==
    /\ pc = "loop"
    /\ pos > Len(split_list)
    /\ all_table' = split_table(all_table)
    /\ final_table' = all_table'
    /\ pc' = "done"
    /\ UNCHANGED <<split_list, pos, count, des, called, result>>

Next == MainLoop \/ SplitTable

Spec == Init /\ [][Next]_vars

SpecLine == InitLine /\ [][Next]_vars

(***************************************************************************)
(* The splitter's functions applied on their own to one combined           *)
(* description.                                                            *)
(***************************************************************************)
InitFn ==
    /\ split_list = <<>>
    /\ pos = 1
    /\ count = 0
    /\ all_table = <<>>
    /\ final_table = <<>>
    /\ pc = "fn"
    /\ des \in DesInputs
    /\ called = ""
    /\ result = <<>>

\* the partial row categorize_col_contents builds around des
RowOf(d) == <<S("A12345 67 8"), <<>>, d, <<>>>>

\* the partial row that holds the issuer description of a split row again
Unsplit(row) == <<row[1], row[2], row[3], row[5]>>

CallStarterCheck ==
    /\ pc = "fn" /\ called = ""
    /\ called' = "starter_check"
    /\ result' = starter_check(des)
    /\ UNCHANGED <<mainVars, pc, des>>

CallEndCheck ==
    /\ pc = "fn" /\ called = ""
    /\ called' = "end_check"
    /\ result' = end_check(des)
    /\ UNCHANGED <<mainVars, pc, des>>

CallSplitTable ==
    /\ pc = "fn" /\ called = ""
    /\ called' = "split_table"
    /\ result' = split_table(<<RowOf(des)>>)
    /\ UNCHANGED <<mainVars, pc, des>>

\* split_table run on the issuer description its first run left: result
\* then holds the row of the first run and the row of the second
CallSplitTableAgain ==
    /\ pc = "fn" /\ called = "split_table"
    /\ called' = "split_table again"
    /\ result' = result \o split_table(<<Unsplit(result[1])>>)
    /\ UNCHANGED <<mainVars, pc, des>>

NextFn ==
    CallStarterCheck \/ CallEndCheck \/ CallSplitTable \/ CallSplitTableAgain

SpecFn == InitFn /\ [][NextFn]_vars

(***************************************************************************)
(* Properties.                                                             *)
(***************************************************************************)
IsRecordLine(el) == re_match_CUSIP(el).matched

\* the lines of split_list that match the record-prefix pattern, in order
RecordLines == SelectSeq(split_list, IsRecordLine)

\* the combined description of the k-th record line, before split_table
Combined(k) == categorize_col_contents(RecordLines[k]).row_list[3]

HasStarter(d) == \E k \in 1..Len(starters) : Contains(d, S(" ") \o starters[k])

HasEnd(d) ==
    \E k \in 1..Len(ends) : Contains(d, S(" ") \o ends[k] \o S(" "))

\* C1, as the specification states it: the single line
\* "A12345678 * APPLE INC COM DELETED" yields exactly one record, with
\* CUSIP "A12345678", option "*", issuer "APPLE INC", issue "COM" and
\* status "DELETED".
C1_ExampleAsStated ==
    (split_list = <<S("A12345678 * APPLE INC COM DELETED")>> /\ pc = "done")
        => final_table =
              << <<S("A12345678"), S("*"), S("APPLE INC"), S("COM"),
                   S("DELETED")>> >>

\* C1, amended: the line "A12345678 * APPLE INC COM DELETED" does not match
\* the record-prefix pattern and yields no record; with the CUSIP in the
\* pattern's layout, "A12345 67 8 * APPLE INC COM DELETED", the single line
\* yields exactly one record, with CUSIP "A12345 67 8", option "*", issuer
\* "APPLE INC", issue "COM" and status "DELETED".
C1_Example ==
    /\ (/\ split_list = <<S("A12345678 * APPLE INC COM DELETED")>>
        /\ pc = "done")
          => final_table = <<>>
    /\ (/\ split_list = <<S("A12345 67 8 * APPLE INC COM DELETED")>>
        /\ pc = "done")
          => final_table =
                << <<S("A12345 67 8"), S("*"), S("APPLE INC"), S("COM"),
                     S("DELETED")>> >>

C1_Witness ==
    /\ split_list = <<S("A12345 67 8 * APPLE INC COM DELETED")>>
    /\ pc = "done"
    /\ Len(final_table) = 1

\* C2: in every row of the final table the issue description is not empty:
\* it is the fallback note, or non-empty text that ends the combined
\* description the row was split from.
C2_IssueNeverEmpty ==
    pc = "done" =>
        \A k \in 1..Len(final_table) :
            /\ final_table[k][4] # <<>>
            /\ \/ final_table[k][4] = note
               \/ EndsWith(Combined(k), final_table[k][4])

\* a row that no starter splits and the end scan does: "TR" is what
\* follows the end word
C2_Witness ==
    /\ pc = "done"
    /\ Len(final_table) = 1
    /\ ~HasStarter(Combined(1))
    /\ HasEnd(Combined(1))
    /\ final_table[1][4] = S("TR")

\* C3, as stated: whenever split_table does not use the fallback note, the
\* issuer description, one space and the issue description together are
\* the combined description again.  It is stated here for the descriptions
\* whose words are a single space apart, where no run of spaces can
\* account for a difference.
C3_RoundTrip ==
    (/\ called = "split_table"
     /\ HasStarter(des) \/ HasEnd(des)
     /\ ~Contains(des, S("  ")))
        => result[1][3] \o S(" ") \o result[1][4] = des

\* C4, as stated: a combined description that holds "ADR" and "SPONS ADR"
\* is split at the last occurrence of "SPONS ADR".
C4_SponsAdrAsStated ==
    (called = "split_table" /\ Contains(des, S("ADR"))
        /\ Contains(des, S("SPONS ADR")))
        => result[1][4] = PyFrom(des, rfind(des, S("SPONS ADR")))

\* the starters listed before "SPONS ADR"
BeforeSponsAdr ==
    {S("CALL"), S("PUT"), S("DEBT"), S("NAMEN"), S("*W"), S("ORDINARY"),
     S("RIGHT"), S("WBI"), S("NOTE"), S("USD ORD"), S("ORD SHS"), S("ORD SH"),
     S("USD MFC"), S("REG SHS")}

\* C4, amended: a combined description that holds "SPONS ADR" after a
\* space, and none of the starters listed before "SPONS ADR" after a space,
\* is split by "SPONS ADR": the issue description begins with the last
\* occurrence of "SPONS ADR" in the combined description and runs to its
\* end; it is never split by "ADR".
C4_SponsAdr ==
    (/\ called = "split_table"
     /\ Contains(des, S(" SPONS ADR"))
     /\ \A t \in BeforeSponsAdr : ~Contains(des, S(" ") \o t))
        => /\ EndsWith(des, result[1][4])
           /\ PyTo(result[1][4], Len(S("SPONS ADR"))) = S("SPONS ADR")
           /\ ~Contains(PyFrom(result[1][4], 1), S("SPONS ADR"))

\* "ADR" stands in the description before "SPONS ADR" as well
C4_Witness ==
    /\ called = "split_table"
    /\ des = S("ADR SPONS ADR")
    /\ result[1][3] = S("ADR")
    /\ result[1][4] = S("SPONS ADR")

\* C5: end_check reports a token only when the description holds that
\* token as a word of its own, with a space on either side; a token that
\* only stands inside a longer word is not reported.
C5_EndWholeWord ==
    (called = "end_check" /\ result[1])
        => Contains(des, S(" ") \o result[2] \o S(" "))

\* "TR" is reported for the word "TR", in a description whose word
\* "PETROL" holds the letters too
C5_Witness ==
    /\ called = "end_check"
    /\ des = S("PETROL TR APPLE")
    /\ result = <<TRUE, S("TR")>>

\* C6, as stated: split_table run again on the issuer description of its
\* first run leaves that issuer description as it is.
C6_IdempotentAsStated ==
    called = "split_table again" => result[2][3] = result[1][3]

\* C6, amended: split_table run again on the issuer description of its
\* first run leaves it as it is (and writes the note) exactly when that
\* issuer description holds no starter after a space and no end word
\* between two spaces; otherwise the second run splits it further.
C6_Idempotent ==
    called = "split_table again" =>
        /\ (result[2][3] = result[1][3])
              <=> (~HasStarter(result[1][3]) /\ ~HasEnd(result[1][3]))
        /\ (result[2][3] = result[1][3]) => result[2][4] = note

\* a first run that split, and a second run that changed nothing
C6_Witness ==
    /\ called = "split_table again"
    /\ result[1][4] # note
    /\ result[1][3] # des
    /\ result[2][3] = result[1][3]

\* C7, as stated: the total-count scan never raises; a total-count line
\* whose last 6 characters are no number leaves the count 0 and the run
\* goes on.
C7_CountScanNeverRaises == pc # "ValueError"

\* C8: after the loop and split_table the table holds one row per line that
\* matches the record-prefix pattern, in the order of those lines, repeated
\* lines giving repeated rows, whatever total-count lines stand between.
C8_OneRowPerRecordLine ==
    pc = "done" =>
        /\ Len(final_table) = Len(RecordLines)
        /\ \A k \in 1..Len(RecordLines) :
              /\ final_table[k] =
                    split_row(categorize_col_contents(RecordLines[k]).row_list)
              /\ final_table[k][1] = PyTo(RecordLines[k], 11)

\* the same record line before and after a total-count line
C8_Witness ==
    /\ pc = "done"
    /\ Len(split_list) = 3
    /\ IsRecordLine(split_list[1])
    /\ split_list[2] = S("Total Count 21,312")
    /\ split_list[3] = split_list[1]
    /\ count = 21312
    /\ Len(final_table) = 2
    /\ final_table[1] = final_table[2]

\* C9, as stated: categorize_col_contents either returns a partial row or
\* None; it never ends in an error.
C9_RowOrNone == pc # "IndexError"

\* the index of the first occurrence of token t in list l
FirstIndex(l, t) == Min({k \in 1..Len(l) : l[k] = t})

SpecificFirst(l) ==
    \A i, j \in 1..Len(l) :
        (l[i] # l[j] /\ Contains(l[i], l[j]))
            => FirstIndex(l, l[i]) < FirstIndex(l, l[j])

\* C10, as stated: in the list starter_check scans and in the list
\* end_check scans, a token that holds another token of the same list
\* stands earlier in the list than the token it holds.
C10_SpecificFirst ==
    /\ called = "starter_check" => SpecificFirst(starters)
    /\ called = "end_check" => SpecificFirst(ends)

====
